---- MODULE Spec2Model ----
(***************************************************************************)
(* The two notebooks of teotil2_reporting as one state machine.            *)
(*   merge_old_new_results.ipynb : the merge loop over fname_dict          *)
(*   tables_to_excel.ipynb       : the export loop inside pd.ExcelWriter   *)
(* A run executes one of the notebooks (variable nb).  Every statement of  *)
(* a loop body is one action; read_csv / to_csv / ExcelWriter are split    *)
(* into the opening of the file and the rest, so that open handles and the *)
(* truncation done by mode "w" are visible.                                *)
(*                                                                         *)
(* A number is a record [int, frac]: int is the whole part and frac the    *)
(* written fraction: "" (an integer, no decimal point), ".0", ".4" (below  *)
(* one half), ".5", ".6" (above one half), or "nan".                       *)
(***************************************************************************)
EXTENDS Integers, Sequences, FiniteSets, TLC

VARIABLES nb, pc, err, fs, fs0, handles, written,
          fname_dict, i, old_df, new_df, merge_df,
          regions, ri, pj, df, book, xl

vars == <<nb, pc, err, fs, fs0, handles, written,
          fname_dict, i, old_df, new_df, merge_df,
          regions, ri, pj, df, book, xl>>

(***************************** bounds ***************************************)
\* mapping entries of a batch run
NumEntries == 3
\* rows of an input table in a single-entry run
MaxRows == 3
\* regions of an export run
MaxRegions == 2

(***************************** helpers **************************************)
Range(s) == {s[k] : k \in 1..Len(s)}

SeqsUpTo(S, n) == UNION {[1..k -> S] : k \in 0..n}

Min(a, b) == IF a < b THEN a ELSE b

(***************************** numbers **************************************)
Num(n, f) == [int |-> n, frac |-> f]

NaN == Num(0, "nan")

IsNaN(v) == v.frac = "nan"

IsFloat(v) == v.frac # ""

\* the value has no fractional part
IsWhole(v) == v.frac \in {"", ".0"}

\* n <= v and v <= n for an integer n, as query() compares År with the bounds
IntLeq(n, v) == ~IsNaN(v) /\ n <= v.int

LeqInt(v, n) == ~IsNaN(v) /\ (v.int < n \/ (v.int = n /\ IsWhole(v)))

(********************** merge notebook: constants ***************************)
old_st == 1990

old_end == 2017

old_fold == "../report_2020/jose_data"

new_fold == "../report_2020/data"

merge_fold == "../report_2020/jose_data_updated_2018-20"

\* fname_dict as a list of items (new_fname, old_fname), in insertion order:
\* renaming entries and identity entries of the notebook's table
FnameItems ==
    << <<"Norskehavet_p.csv", "Norskehav_p.csv">>,
       <<"Glomma_p.csv", "Glomma_p.csv">>,
       <<"Norskehavet_n.csv", "Norskehav_n.csv">>,
       <<"Glomma_n.csv", "Glomma_n.csv">> >>

\* os.path.join(fold, fname)
Join(fold, fname) == <<fold, fname>>

new_fname == fname_dict[i][1]

old_fname == fname_dict[i][2]

\* mutant of out_fpath: the output named after the legacy file
OutUnderOldName == Join(merge_fold, old_fname)

new_fpath == Join(new_fold, new_fname)

old_fpath == Join(old_fold, old_fname)

out_fpath == Join(merge_fold, new_fname)

(***************************** files ****************************************)
\* a CSV file: its header and its rows (each row maps a column to a number)
Absent == [exists |-> FALSE, header |-> <<>>, rows |-> <<>>]

\* what open(path, "w") leaves before anything is written
Truncated == [exists |-> TRUE, header |-> <<>>, rows |-> <<>>]

CsvFile(h, rs) == [exists |-> TRUE, header |-> h, rows |-> rs]

(***************************** data frames **********************************)
\* a frame: ordered columns and rows; a row carries its index label, the
\* path it was read from (org, history only) and its cells
EmptyFrame == [columns |-> <<>>, rows |-> <<>>]

\* a column read from text is float64 when some cell has a decimal point
ColIsFloat(rs, c) == \E k \in 1..Len(rs) : IsFloat(rs[k][c])

UpCast(v, isFloat) == IF isFloat /\ v.frac = "" THEN Num(v.int, ".0") ELSE v

\* pd.read_csv(path): RangeIndex, dtype inferred per column
ReadCsv(file, path) ==
    [columns |-> file.header,
     rows |-> [k \in 1..Len(file.rows) |->
                 [index |-> k - 1,
                  org |-> path,
                  cells |-> [c \in Range(file.header) |->
                               UpCast(file.rows[k][c], ColIsFloat(file.rows, c))]]]]

\* the row satisfies "@old_st <= År <= @old_end"
InWindow(r) == IntLeq(old_st, r.cells["År"]) /\ LeqInt(r.cells["År"], old_end)

\* mutant of Query: the end of the window taken as exclusive
QueryStrict(frame) ==
    LET Inside(r) == IntLeq(old_st, r.cells["År"]) /\ r.cells["År"].int < old_end
    IN  [frame EXCEPT !.rows = SelectSeq(frame.rows, Inside)]

\* old_df.query("@old_st <= År <= @old_end"): keeps order and index labels
Query(frame) == [frame EXCEPT !.rows = SelectSeq(frame.rows, InWindow)]

\* the rename table of old_df.rename(...)
RenameCol(c) ==
    CASE c = "Befolkning" -> "Avløp"
      [] c = "Bakgrun" -> "Bakgrunn"
      [] OTHER -> c

Rename(frame) ==
    LET old == frame.columns
        new == [k \in 1..Len(old) |-> RenameCol(old[k])]
        Src(c) == CHOOSE o \in Range(old) : RenameCol(o) = c
    IN  [columns |-> new,
         rows |-> [k \in 1..Len(frame.rows) |->
                     [frame.rows[k] EXCEPT
                        !.cells = [c \in Range(new) |-> frame.rows[k].cells[Src(c)]]]]]

HasCol(frame, c) == c \in Range(frame.columns)

\* mutant of Concat: the frames taken in the other order
ConcatNewFirst(a, b) ==
    LET NotInA(c) == ~HasCol(a, c)
        cols == a.columns \o SelectSeq(b.columns, NotInA)
        Cell(frame, r, c) == IF HasCol(frame, c) THEN r.cells[c] ELSE NaN
    IN  [columns |-> cols,
         rows |-> [k \in 1..(Len(a.rows) + Len(b.rows)) |->
                     IF k <= Len(b.rows)
                     THEN [b.rows[k] EXCEPT
                             !.cells = [c \in Range(cols) |-> Cell(b, b.rows[k], c)]]
                     ELSE LET r == a.rows[k - Len(b.rows)]
                          IN  [r EXCEPT !.cells = [c \in Range(cols) |-> Cell(a, r, c)]]]]

\* pd.concat([a, b], axis="rows"): outer join of the columns in order of
\* appearance, a's rows then b's rows, index labels kept, missing cells NaN
Concat(a, b) ==
    LET NotInA(c) == ~HasCol(a, c)
        cols == a.columns \o SelectSeq(b.columns, NotInA)
        Cell(frame, r, c) == IF HasCol(frame, c) THEN r.cells[c] ELSE NaN
        all == [k \in 1..(Len(a.rows) + Len(b.rows)) |->
                  IF k <= Len(a.rows)
                  THEN [a.rows[k] EXCEPT
                          !.cells = [c \in Range(cols) |-> Cell(a, a.rows[k], c)]]
                  ELSE LET r == b.rows[k - Len(a.rows)]
                       IN  [r EXCEPT !.cells = [c \in Range(cols) |-> Cell(b, r, c)]]]
        Float(c) == \E k \in 1..Len(all) : IsFloat(all[k].cells[c])
    IN  [columns |-> cols,
         rows |-> [k \in 1..Len(all) |->
                     [all[k] EXCEPT
                        !.cells = [c \in Range(cols) |->
                                     UpCast(all[k].cells[c], Float(c))]]]]

\* mutant of RoundHalfEven: the fraction dropped instead of rounded
RoundDown(v) == v.int

\* numpy rounding of one float: to the nearest integer, a tie to the even one
RoundHalfEven(v) ==
    CASE v.frac \in {".0", ".4"} -> v.int
      [] v.frac = ".6" -> v.int + 1
      [] v.frac = ".5" -> IF v.int % 2 = 0 THEN v.int ELSE v.int + 1

\* .round(0) on one cell: integers and NaN are left alone, floats stay floats
RoundCell(v) == IF v.frac \in {"", "nan"} THEN v ELSE Num(RoundHalfEven(v), ".0")

\* .round(0) on the frame
Round0(frame) ==
    [frame EXCEPT
       !.rows = [k \in 1..Len(frame.rows) |->
                   [frame.rows[k] EXCEPT
                      !.cells = [c \in Range(frame.columns) |->
                                   RoundCell(frame.rows[k].cells[c])]]]]

HasNaN(frame) ==
    \E k \in 1..Len(frame.rows) : \E c \in Range(frame.columns) :
        IsNaN(frame.rows[k].cells[c])

\* .astype(int) on one cell: the fraction is cut off
IntCell(v) == Num(v.int, "")

\* .astype(int) on the frame; it raises on a NaN, see Merge
AsTypeInt(frame) ==
    [frame EXCEPT
       !.rows = [k \in 1..Len(frame.rows) |->
                   [frame.rows[k] EXCEPT
                      !.cells = [c \in Range(frame.columns) |->
                                   IntCell(frame.rows[k].cells[c])]]]]

\* to_csv(path, index=False): header and cells, no index column
ToCsv(frame) ==
    CsvFile(frame.columns, [k \in 1..Len(frame.rows) |-> frame.rows[k].cells])

(********************** merge notebook: inputs ******************************)
\* headers of the legacy scheme and of the current scheme
LegacyHeaders == { <<"År", "Bakgrun", "Befolkning">>, <<"År", "Befolkning">> }

CurrentHeaders == { <<"År", "Bakgrunn", "Avløp">>, <<"Avløp", "År">> }

\* sample measurements (a year and the load of that year): legacy years below,
\* at both ends of and above the window; current years inside and above it
LegacySamples ==
    { [year |-> 1989, val |-> Num(3, ".5")], [year |-> 1990, val |-> Num(2, ".5")],
      [year |-> 2017, val |-> Num(1, ".4")], [year |-> 2018, val |-> Num(4, ".6")] }

CurrentSamples ==
    { [year |-> 2017, val |-> Num(6, ".6")], [year |-> 2018, val |-> Num(0, ".5")],
      [year |-> 2019, val |-> Num(5, "")] }

SampleRow(h, s) == [c \in Range(h) |-> IF c = "År" THEN Num(s.year, "") ELSE s.val]

\* a table holds one row per year: lists of samples of different years
OnePerYear(ss) == \A a, b \in 1..Len(ss) : a # b => ss[a].year # ss[b].year

Tables(headers, samples, n) ==
    UNION { { CsvFile(h, [k \in 1..Len(ss) |-> SampleRow(h, ss[k])]) :
                ss \in {x \in SeqsUpTo(samples, n) : OnePerYear(x)} }
            : h \in headers }

\* a file left in the output directory by an earlier run
Stale == CsvFile(<<"År">>, << [c \in {"År"} |-> Num(1990, "")] >>)

\* the tables of entry k of a batch run: one row each, the load telling the
\* entries apart; the current table either with the columns of the renamed
\* legacy table or with other columns
BatchLegacy(k) ==
    CsvFile(<<"År", "Bakgrun", "Befolkning">>,
            << SampleRow(<<"År", "Bakgrun", "Befolkning">>,
                         [year |-> 2017, val |-> Num(k, ".4")]) >>)

BatchCurrent(k, sameColumns) ==
    IF sameColumns
    THEN CsvFile(<<"År", "Bakgrunn", "Avløp">>,
                 << SampleRow(<<"År", "Bakgrunn", "Avløp">>,
                              [year |-> 2018, val |-> Num(k, ".5")]) >>)
    ELSE CsvFile(<<"Avløp", "År">>,
                 << SampleRow(<<"Avløp", "År">>, [year |-> 2018, val |-> Num(k, ".5")]) >>)

MergePaths(items) ==
    {old_fold, new_fold, merge_fold}
        \X ({items[k][1] : k \in 1..Len(items)} \cup {items[k][2] : k \in 1..Len(items)})

\* the three stores with, for entry k, legacy file a[k], current file b[k]
\* and previous output c[k]
Stores(items, a, b, c) ==
    [p \in MergePaths(items) |->
        IF \E k \in 1..Len(items) : p = Join(old_fold, items[k][2])
        THEN a[CHOOSE k \in 1..Len(items) : p = Join(old_fold, items[k][2])]
        ELSE IF \E k \in 1..Len(items) : p = Join(new_fold, items[k][1])
        THEN b[CHOOSE k \in 1..Len(items) : p = Join(new_fold, items[k][1])]
        ELSE IF \E k \in 1..Len(items) : p = Join(merge_fold, items[k][1])
        THEN c[CHOOSE k \in 1..Len(items) : p = Join(merge_fold, items[k][1])]
        ELSE Absent]

(********************** export notebook: constants and inputs ***************)
year == 2022

xl_path == <<"../report_", year, "/report_", year, "_data_tables.xlsx">>

data_fold == <<"../report_", year, "/data">>

pars == <<"p", "n">>

\* par.capitalize()
Capitalize(par) == CASE par = "p" -> "P" [] par = "n" -> "N" [] OTHER -> par

\* f"{region}_{par}.csv"
CsvName(region, par) == <<region, "_", par, ".csv">>

\* f"{region} ({par.capitalize()})"
SheetName(region, par) == <<region, " (", Capitalize(par), ")">>

csv_path == Join(data_fold, CsvName(regions[ri], pars[pj]))

\* region names of the notebook's list
RegionNames == <<"Norges kystområder", "Glomma", "Agder">>

\* the table of one region and parameter: one row whose load tells it apart
RegionTable(r, p) ==
    CsvFile(<<"År", "Avløp">>,
            << [c \in {"År", "Avløp"} |->
                  IF c = "År" THEN Num(year, "") ELSE Num(r, IF p = 1 THEN ".5" ELSE "")] >>)

ExportIds == (1..Len(RegionNames)) \X (1..Len(pars))

ExportPath(id) == Join(data_fold, CsvName(RegionNames[id[1]], pars[id[2]]))

\* the data folder with the files of the ids in present
DataFold(present) ==
    [p \in {ExportPath(id) : id \in ExportIds} |->
        LET id == CHOOSE x \in ExportIds : ExportPath(x) = p
        IN  IF id \in present THEN RegionTable(id[1], id[2]) ELSE Absent]

NoBook == [exists |-> FALSE, sheets |-> <<>>]

(***************************** initial states *******************************)
MergeIdle ==
    /\ nb = "merge"
    /\ pc = "open_old"
    /\ i = 1
    /\ regions = <<>> /\ ri = 1 /\ pj = 1 /\ df = EmptyFrame /\ book = <<>>
    /\ xl = NoBook

\* a run over one mapping entry, the tables drawn from all tables of at most
\* MaxRows sample rows
InitOne ==
    /\ MergeIdle
    /\ fname_dict = SubSeq(FnameItems, 1, 1)
    /\ \E lt \in Tables(LegacyHeaders, LegacySamples, MaxRows) \cup {Absent},
          ct \in Tables(CurrentHeaders, CurrentSamples, MaxRows) \cup {Absent},
          st \in {Absent, Stale} :
          fs = Stores(fname_dict, <<lt>>, <<ct>>, <<st>>)

\* a run over the first NumEntries mapping entries: each legacy file absent or
\* present, each current file absent, matching or with other columns, each
\* output absent or left by an earlier run
InitBatch ==
    /\ MergeIdle
    /\ fname_dict = SubSeq(FnameItems, 1, Min(NumEntries, Len(FnameItems)))
    /\ \E a \in [1..Len(fname_dict) -> BOOLEAN],
          b \in [1..Len(fname_dict) -> {"absent", "same", "other"}],
          c \in [1..Len(fname_dict) -> BOOLEAN] :
          fs = Stores(fname_dict,
                      [k \in 1..Len(fname_dict) |-> IF a[k] THEN BatchLegacy(k) ELSE Absent],
                      [k \in 1..Len(fname_dict) |->
                         IF b[k] = "absent" THEN Absent ELSE BatchCurrent(k, b[k] = "same")],
                      [k \in 1..Len(fname_dict) |-> IF c[k] THEN Stale ELSE Absent])

\* an export run over a non-empty region list of at most MaxRegions names
InitExcel ==
    /\ nb = "excel"
    /\ pc = "open_writer"
    /\ regions \in SeqsUpTo(Range(RegionNames), MaxRegions) \ {<<>>}
    /\ ri = 1 /\ pj = 1 /\ df = EmptyFrame /\ book = <<>>
    /\ xl \in {NoBook, [exists |-> TRUE, sheets |-> <<>>]}
    /\ \E present \in SUBSET ExportIds : fs = DataFold(present)
    /\ fname_dict = <<>> /\ i = 1

Init ==
    /\ (InitOne \/ InitBatch \/ InitExcel)
    /\ err = "none"
    /\ fs0 = fs
    /\ handles = {}
    /\ written = <<>>
    /\ old_df = EmptyFrame /\ new_df = EmptyFrame /\ merge_df = EmptyFrame

(********************** merge notebook: the loop ****************************)
\* mutant of OpenOld: an absent legacy file skips the entry instead of ending
\* the run
OpenOldSkip ==
    /\ nb = "merge" /\ pc = "open_old"
    /\ IF fs[old_fpath].exists
       THEN /\ handles' = handles \cup {old_fpath}
            /\ pc' = "parse_old"
            /\ i' = i
       ELSE /\ pc' = IF i + 1 > Len(fname_dict) THEN "done" ELSE "open_old"
            /\ i' = i + 1
            /\ handles' = handles
    /\ UNCHANGED <<nb, err, fs, fs0, written, fname_dict, old_df, new_df, merge_df,
                   regions, ri, pj, df, book, xl>>

\* pd.read_csv(old_fpath): the file is opened, or FileNotFoundError ends the run
OpenOld ==
    /\ nb = "merge" /\ pc = "open_old"
    /\ IF fs[old_fpath].exists
       THEN /\ handles' = handles \cup {old_fpath}
            /\ pc' = "parse_old"
            /\ err' = err
       ELSE /\ pc' = "error"
            /\ err' = "FileNotFoundError"
            /\ handles' = handles
    /\ UNCHANGED <<nb, fs, fs0, written, fname_dict, i, old_df, new_df, merge_df,
                   regions, ri, pj, df, book, xl>>

\* mutant of ParseOld: the file is left open
ParseOldLeak ==
    /\ nb = "merge" /\ pc = "parse_old"
    /\ old_df' = ReadCsv(fs[old_fpath], old_fpath)
    /\ pc' = "query"
    /\ UNCHANGED <<nb, err, fs, fs0, handles, written, fname_dict, i, new_df, merge_df,
                   regions, ri, pj, df, book, xl>>

\* ... read into old_df and closed
ParseOld ==
    /\ nb = "merge" /\ pc = "parse_old"
    /\ old_df' = ReadCsv(fs[old_fpath], old_fpath)
    /\ handles' = handles \ {old_fpath}
    /\ pc' = "query"
    /\ UNCHANGED <<nb, err, fs, fs0, written, fname_dict, i, new_df, merge_df,
                   regions, ri, pj, df, book, xl>>

QueryOld ==
    /\ nb = "merge" /\ pc = "query"
    /\ old_df' = Query(old_df)
    /\ pc' = "rename"
    /\ UNCHANGED <<nb, err, fs, fs0, handles, written, fname_dict, i, new_df, merge_df,
                   regions, ri, pj, df, book, xl>>

RenameOld ==
    /\ nb = "merge" /\ pc = "rename"
    /\ old_df' = Rename(old_df)
    /\ pc' = "open_new"
    /\ UNCHANGED <<nb, err, fs, fs0, handles, written, fname_dict, i, new_df, merge_df,
                   regions, ri, pj, df, book, xl>>

\* mutant of OpenNew: an absent current file is taken as an empty table
OpenNewZeroFill ==
    /\ nb = "merge" /\ pc = "open_new"
    /\ IF fs[new_fpath].exists
       THEN /\ handles' = handles \cup {new_fpath}
            /\ pc' = "parse_new"
            /\ new_df' = new_df
       ELSE /\ pc' = "concat"
            /\ new_df' = EmptyFrame
            /\ handles' = handles
    /\ UNCHANGED <<nb, err, fs, fs0, written, fname_dict, i, old_df, merge_df,
                   regions, ri, pj, df, book, xl>>

\* pd.read_csv(new_fpath), as for the legacy file
OpenNew ==
    /\ nb = "merge" /\ pc = "open_new"
    /\ IF fs[new_fpath].exists
       THEN /\ handles' = handles \cup {new_fpath}
            /\ pc' = "parse_new"
            /\ err' = err
       ELSE /\ pc' = "error"
            /\ err' = "FileNotFoundError"
            /\ handles' = handles
    /\ UNCHANGED <<nb, fs, fs0, written, fname_dict, i, old_df, new_df, merge_df,
                   regions, ri, pj, df, book, xl>>

ParseNew ==
    /\ nb = "merge" /\ pc = "parse_new"
    /\ new_df' = ReadCsv(fs[new_fpath], new_fpath)
    /\ handles' = handles \ {new_fpath}
    /\ pc' = "concat"
    /\ UNCHANGED <<nb, err, fs, fs0, written, fname_dict, i, old_df, merge_df,
                   regions, ri, pj, df, book, xl>>

\* pd.concat([old_df, new_df], axis="rows").round(0).astype(int); astype
\* raises on a NaN (IntCastingNaNError, a ValueError) and the run ends
Merge ==
    /\ nb = "merge" /\ pc = "concat"
    /\ LET rounded == Round0(Concat(old_df, new_df))
       IN  IF HasNaN(rounded)
           THEN /\ pc' = "error"
                /\ err' = "IntCastingNaNError"
                /\ merge_df' = merge_df
           ELSE /\ merge_df' = AsTypeInt(rounded)
                /\ pc' = "open_out"
                /\ err' = err
    /\ UNCHANGED <<nb, fs, fs0, handles, written, fname_dict, i, old_df, new_df,
                   regions, ri, pj, df, book, xl>>

\* merge_df.to_csv(out_fpath, index=False): mode "w" creates or truncates
OpenOut ==
    /\ nb = "merge" /\ pc = "open_out"
    /\ fs' = [fs EXCEPT ![out_fpath] = Truncated]
    /\ handles' = handles \cup {out_fpath}
    /\ written' = Append(written, out_fpath)
    /\ pc' = "write_out"
    /\ UNCHANGED <<nb, err, fs0, fname_dict, i, old_df, new_df, merge_df,
                   regions, ri, pj, df, book, xl>>

\* ... written and closed; the for loop takes the next item or ends
WriteOut ==
    /\ nb = "merge" /\ pc = "write_out"
    /\ fs' = [fs EXCEPT ![out_fpath] = ToCsv(merge_df)]
    /\ handles' = handles \ {out_fpath}
    /\ i' = i + 1
    /\ pc' = IF i + 1 > Len(fname_dict) THEN "done" ELSE "open_old"
    /\ UNCHANGED <<nb, err, fs0, written, fname_dict, old_df, new_df, merge_df,
                   regions, ri, pj, df, book, xl>>

(********************** export notebook: the loop ***************************)
\* with pd.ExcelWriter(xl_path, engine="openpyxl") as writer: the workbook
\* file is opened for writing (created or truncated) and stays open
OpenWriter ==
    /\ nb = "excel" /\ pc = "open_writer"
    /\ xl' = [exists |-> TRUE, sheets |-> <<>>]
    /\ handles' = handles \cup {xl_path}
    /\ written' = Append(written, xl_path)
    /\ book' = <<>>
    /\ pc' = "open_csv"
    /\ UNCHANGED <<nb, err, fs, fs0, fname_dict, i, old_df, new_df, merge_df,
                   regions, ri, pj, df>>

\* pd.read_csv(csv_path): opened, or FileNotFoundError leaves the with block
OpenCsv ==
    /\ nb = "excel" /\ pc = "open_csv"
    /\ IF fs[csv_path].exists
       THEN /\ handles' = handles \cup {csv_path}
            /\ pc' = "parse_csv"
            /\ err' = err
       ELSE /\ pc' = "exit_writer"
            /\ err' = "FileNotFoundError"
            /\ handles' = handles
    /\ UNCHANGED <<nb, fs, fs0, written, fname_dict, i, old_df, new_df, merge_df,
                   regions, ri, pj, df, book, xl>>

ParseCsv ==
    /\ nb = "excel" /\ pc = "parse_csv"
    /\ df' = ReadCsv(fs[csv_path], csv_path)
    /\ handles' = handles \ {csv_path}
    /\ pc' = "to_excel"
    /\ UNCHANGED <<nb, err, fs, fs0, written, fname_dict, i, old_df, new_df, merge_df,
                   regions, ri, pj, book, xl>>

Sheet(name, frame) ==
    [name |-> name, header |-> frame.columns,
     rows |-> [k \in 1..Len(frame.rows) |-> frame.rows[k].cells]]

\* mutant of ToExcel: the new sheet put in front
ToExcelFront(b, name, frame) == <<Sheet(name, frame)>> \o b

\* df.to_excel(writer, sheet_name=..., index=False) with the writer in mode
\* "w": a new sheet is appended; a name the book already has is written over
ToExcel(b, name, frame) ==
    IF \E k \in 1..Len(b) : b[k].name = name
    THEN [k \in 1..Len(b) |-> IF b[k].name = name THEN Sheet(name, frame) ELSE b[k]]
    ELSE Append(b, Sheet(name, frame))

\* the sheet is written; the inner loop over pars, then the outer over regions
WriteSheet ==
    /\ nb = "excel" /\ pc = "to_excel"
    /\ book' = ToExcel(book, SheetName(regions[ri], pars[pj]), df)
    /\ IF pj < Len(pars)
       THEN /\ pj' = pj + 1 /\ ri' = ri /\ pc' = "open_csv"
       ELSE /\ pj' = 1 /\ ri' = ri + 1
            /\ pc' = IF ri < Len(regions) THEN "open_csv" ELSE "exit_writer"
    /\ UNCHANGED <<nb, err, fs, fs0, handles, written, fname_dict, i, old_df, new_df,
                   merge_df, regions, df, xl>>

\* the with block is left (also by an exception): close() saves the book and
\* then closes the workbook file; a book without a sheet cannot be saved
\* (IndexError), and whether the file is closed after that is left open
ExitWriter ==
    /\ nb = "excel" /\ pc = "exit_writer"
    /\ IF book = <<>>
       THEN /\ xl' = xl
            /\ err' = "IndexError"
            /\ pc' = "error"
            /\ handles' \in {handles, handles \ {xl_path}}
       ELSE /\ xl' = [exists |-> TRUE, sheets |-> book]
            /\ err' = err
            /\ pc' = IF err = "none" THEN "done" ELSE "error"
            /\ handles' = handles \ {xl_path}
    /\ UNCHANGED <<nb, fs, fs0, written, fname_dict, i, old_df, new_df, merge_df,
                   regions, ri, pj, df, book>>

(***************************** specification ********************************)
Next ==
    \/ OpenOld \/ ParseOld \/ QueryOld \/ RenameOld \/ OpenNew \/ ParseNew
    \/ Merge \/ OpenOut \/ WriteOut
    \/ OpenWriter \/ OpenCsv \/ ParseCsv \/ WriteSheet \/ ExitWriter

Spec == Init /\ [][Next]_vars

TypeOK ==
    /\ nb \in {"merge", "excel"}
    /\ err \in {"none", "FileNotFoundError", "IntCastingNaNError", "IndexError"}
    /\ i \in 1..(Len(fname_dict) + 1)

(***************************** properties ***********************************)
Entries == 1..Len(fname_dict)

OldPath(k) == Join(old_fold, fname_dict[k][2])

NewPath(k) == Join(new_fold, fname_dict[k][1])

OutPath(k) == Join(merge_fold, fname_dict[k][1])

\* the year of a row of a file, and the historical window on plain years
FileYear(path, n) == fs0[path].rows[n]["År"].int

InYears(y) == old_st <= y /\ y <= old_end

LegacyInWindow(k) ==
    {n \in 1..Len(fs0[OldPath(k)].rows) : InYears(FileYear(OldPath(k), n))}

Merged == nb = "merge" /\ pc \in {"open_out", "write_out"}

DfYear(k) == merge_df.rows[k].cells["År"].int

\* C1: the merged output of an entry has as many rows as the legacy table has
\* rows with start <= year <= end plus the rows of the current table: in
\* merge_df once the entry is merged, and in the output file of every entry
\* already written (no row dropped, added or deduplicated, overlap or not).
C1_RowCount ==
    nb = "merge" =>
      /\ Merged =>
           Len(merge_df.rows) = Cardinality(LegacyInWindow(i)) + Len(fs0[new_fpath].rows)
      /\ \A k \in 1..(i - 1) :
           Len(fs[OutPath(k)].rows)
             = Cardinality(LegacyInWindow(k)) + Len(fs0[NewPath(k)].rows)

\* a finished run whose legacy table has a row inside and a row outside the
\* window and whose current table has rows, all of other years
C1_Witness ==
    /\ nb = "merge" /\ pc = "done" /\ Len(fname_dict) = 1
    /\ Cardinality(LegacyInWindow(1)) = 1
    /\ Len(fs0[OldPath(1)].rows) = 2
    /\ Len(fs0[NewPath(1)].rows) = 2
    /\ \A n \in 1..2 : ~InYears(FileYear(NewPath(1), n))
    /\ Len(fs[OutPath(1)].rows) = 3

\* C2: in the merged output every year inside the window appears once, in a
\* row from the legacy table, and every year outside the window that the
\* current table has appears once, in a row from the current table.
C2_YearsOnceBySource ==
    (nb = "merge" /\ pc = "open_out") =>
      /\ \A a \in 1..Len(merge_df.rows) :
           /\ InYears(DfYear(a)) => merge_df.rows[a].org = old_fpath
           /\ ~InYears(DfYear(a)) => merge_df.rows[a].org = new_fpath
           /\ \A b \in 1..Len(merge_df.rows) : b # a => DfYear(b) # DfYear(a)
      /\ \A n \in 1..Len(fs0[new_fpath].rows) :
           ~InYears(FileYear(new_fpath, n)) =>
             \E a \in 1..Len(merge_df.rows) : DfYear(a) = FileYear(new_fpath, n)

\* C3: when the columns of the filtered, renamed legacy table and of the
\* current table differ as sets, the entry fails and its output file is
\* neither written nor touched, whatever the number of rows.
C3_MismatchFails ==
    (/\ nb = "merge"
     /\ pc \in {"concat", "open_out", "write_out"}
     /\ Range(old_df.columns) # Range(new_df.columns))
      => /\ pc = "concat"
         /\ fs[out_fpath] = fs0[out_fpath]

MissingInput(k) == ~fs0[OldPath(k)].exists \/ ~fs0[NewPath(k)].exists

\* C4: an entry whose legacy or current file is absent fails with the
\* missing-file error before its merge; its output file is never opened, so
\* it is neither created nor overwritten.
C4_MissingInput ==
    nb = "merge" =>
      \A k \in Entries :
        MissingInput(k) =>
          /\ i <= k
          /\ i = k => pc \in {"open_old", "parse_old", "query", "rename", "open_new", "error"}
          /\ (i = k /\ pc = "error") => err = "FileNotFoundError"
          /\ fs[OutPath(k)] = fs0[OutPath(k)]
          /\ OutPath(k) \notin Range(written)

\* the legacy table was read, the current file is missing, and the file a
\* previous run left in the output directory is still there
C4_Witness ==
    /\ nb = "merge" /\ pc = "error" /\ err = "FileNotFoundError"
    /\ fs0[old_fpath].exists /\ ~fs0[new_fpath].exists
    /\ Len(old_df.rows) > 0
    /\ fs[out_fpath] = Stale

\* the name the sheet at position k must have: regions outer, P before N
ExpectedSheet(k) == <<regions[((k - 1) \div 2) + 1], " (", IF k % 2 = 1 THEN "P" ELSE "N", ")">>

SheetsInOrder(sheets) == \A k \in 1..Len(sheets) : sheets[k].name = ExpectedSheet(k)

\* C5 as stated, for every region list: the sheets written so far are a
\* prefix of the expected sequence and the finished workbook has exactly
\* 2 * |regions| sheets in that order.
C5_SheetOrder ==
    nb = "excel" =>
      /\ Len(book) <= 2 * Len(regions) /\ SheetsInOrder(book)
      /\ pc \in {"open_csv", "parse_csv", "to_excel"} => Len(book) = 2 * (ri - 1) + (pj - 1)
      /\ pc = "done" => /\ xl.exists
                        /\ Len(xl.sheets) = 2 * Len(regions)
                        /\ SheetsInOrder(xl.sheets)

Distinct(s) == \A a, b \in 1..Len(s) : a # b => s[a] # s[b]

\* C5 amended: the same, for region lists without a repeated name.
C5_SheetOrderDistinct == Distinct(regions) => C5_SheetOrder

\* a finished export of two different regions: four sheets
C5_Witness ==
    /\ nb = "excel" /\ pc = "done"
    /\ Len(regions) = 2 /\ Distinct(regions)
    /\ Len(xl.sheets) = 4

\* C6, the states: outputs are opened in mapping order, one per entry reached;
\* an entry with an absent input is never passed; after a failure at entry i
\* nothing can run, the outputs of the entries before i are in place and the
\* outputs of entry i and of the later entries are as they were.
C6_State ==
    nb = "merge" =>
      /\ \A k \in 1..Len(written) : written[k] = OutPath(k)
      /\ Len(written) = (IF pc = "write_out" THEN i ELSE i - 1)
      /\ \A k \in Entries : MissingInput(k) => i <= k
      /\ pc = "error" =>
           /\ ~ENABLED Next
           /\ \A k \in Entries :
                IF k < i
                THEN fs[OutPath(k)].exists /\ fs[OutPath(k)].header # <<>>
                ELSE fs[OutPath(k)] = fs0[OutPath(k)]

\* C6, the steps: no step changes the output file of an entry already done.
C6_Step == nb = "merge" => \A k \in 1..(i - 1) : fs'[OutPath(k)] = fs[OutPath(k)]

\* C6: entries are processed in mapping order, the first failure stops the
\* run, the outputs written before it stay unchanged and no output is written
\* for the failing entry or a later one.
C6_FirstFailureStops == [](C6_State) /\ [][C6_Step]_vars

\* the second entry fails after the first one replaced a previous output
C6_Witness ==
    /\ nb = "merge" /\ pc = "error" /\ i = 2
    /\ fs0[OutPath(1)] = Stale /\ fs[OutPath(1)] # Stale
    /\ fs[OutPath(2)] = Stale

\* the row of the input file a row of merge_df was read from
SourceRow(r) == fs0[r.org].rows[r.index + 1]

Ascending(years) == \A a, b \in 1..Len(years) : a < b => years[a] <= years[b]

FileYears(path) == [n \in 1..Len(fs0[path].rows) |-> FileYear(path, n)]

InYearsOnly(years) == SelectSeq(years, InYears)

\* C7: in the merged frame every legacy row precedes every current row, rows
\* of the same table keep the order they had in their file, each row carries
\* the year of the file row it was read from, and the result is ascending by
\* year exactly when the kept legacy years and the current years are and no
\* legacy year is above a current year.
C7_Order ==
    (nb = "merge" /\ pc = "open_out") =>
      /\ \A a, b \in 1..Len(merge_df.rows) :
           a < b =>
             /\ ~(merge_df.rows[a].org = new_fpath /\ merge_df.rows[b].org = old_fpath)
             /\ merge_df.rows[a].org = merge_df.rows[b].org
                  => merge_df.rows[a].index < merge_df.rows[b].index
      /\ \A a \in 1..Len(merge_df.rows) :
           /\ merge_df.rows[a].org \in {old_fpath, new_fpath}
           /\ DfYear(a) = SourceRow(merge_df.rows[a])["År"].int
      /\ Ascending([a \in 1..Len(merge_df.rows) |-> DfYear(a)])
           <=> /\ Ascending(InYearsOnly(FileYears(old_fpath)))
               /\ Ascending(FileYears(new_fpath))
               /\ \A x \in Range(InYearsOnly(FileYears(old_fpath))) :
                    \A y \in Range(FileYears(new_fpath)) : x <= y

\* two legacy rows in descending order followed by two current rows
C7_Witness ==
    /\ nb = "merge" /\ pc = "open_out"
    /\ Len(merge_df.rows) = 4
    /\ merge_df.rows[2].org = old_fpath /\ merge_df.rows[3].org = new_fpath
    /\ DfYear(1) > DfYear(2)

\* C8, the frame: at every point the legacy store, the current store and the
\* output files of no entry are as they were at the start; what has been
\* opened for writing is an output path of an entry, each at most once.
C8_Frame ==
    nb = "merge" =>
      /\ \A p \in DOMAIN fs :
           p \notin {OutPath(k) : k \in Entries} => fs[p] = fs0[p]
      /\ \A a \in 1..Len(written) :
           /\ written[a] \in {OutPath(k) : k \in Entries}
           /\ \A b \in 1..Len(written) : a # b => written[a] # written[b]

\* C8: a run that ends without error has written exactly one file per
\* mapping entry, in the output directory under the entry's current name,
\* replacing what was there, and has written nothing else.
C8_Outputs ==
    /\ C8_Frame
    /\ (nb = "merge" /\ pc = "done") =>
         /\ Range(written) = {OutPath(k) : k \in Entries}
         /\ Len(written) = Len(fname_dict)
         /\ \A k \in Entries :
              /\ fs[OutPath(k)].exists
              /\ fs[OutPath(k)] \notin {Stale, Truncated}

\* a finished batch with an identity entry (same legacy and current name)
\* that replaced a previous output
C8_Witness ==
    /\ nb = "merge" /\ pc = "done" /\ Len(fname_dict) >= 2
    /\ fname_dict[2][1] = fname_dict[2][2]
    /\ fs0[OutPath(2)] = Stale
    /\ fs0[OldPath(2)].exists /\ fs[OldPath(2)] = fs0[OldPath(2)]

\* ten times the value of a number
Tenths(v) ==
    10 * v.int + (CASE v.frac \in {"", ".0"} -> 0
                    [] v.frac = ".4" -> 4
                    [] v.frac = ".5" -> 5
                    [] v.frac = ".6" -> 6)

\* n is an integer nearest to v
Nearest(n, v) == 10 * n - Tenths(v) <= 5 /\ Tenths(v) - 10 * n <= 5

\* the column of the input file that column c of merge_df comes from
SourceCol(r, c) == CHOOSE o \in Range(fs0[r.org].header) : o = c \/ (r.org = old_fpath /\ RenameCol(o) = c)

\* C9: every cell of the merged frame is an integer nearest to the value of
\* the input cell it comes from, the year included; the output file holds
\* these integers, none with a fraction; normalizing the merged frame again
\* returns it unchanged.
C9_Normalized ==
    nb = "merge" =>
      /\ Merged =>
           /\ \A a \in 1..Len(merge_df.rows) : \A c \in Range(merge_df.columns) :
                LET r == merge_df.rows[a]
                IN  /\ r.cells[c].frac = ""
                    /\ Nearest(r.cells[c].int, SourceRow(r)[SourceCol(r, c)])
           /\ AsTypeInt(Round0(merge_df)) = merge_df
      /\ \A k \in 1..(i - 1) : \A n \in 1..Len(fs[OutPath(k)].rows) :
           \A c \in Range(fs[OutPath(k)].header) : fs[OutPath(k)].rows[n][c].frac = ""

\* a merged frame with values rounded down, rounded up and a tie rounded to
\* the even neighbour
C9_Witness ==
    /\ Merged
    /\ Len(merge_df.rows) = 3
    /\ merge_df.rows[1].org = old_fpath /\ merge_df.rows[2].org = new_fpath
    /\ SourceRow(merge_df.rows[1])["Befolkning"] = Num(1, ".4")
    /\ merge_df.rows[1].cells["Avløp"] = Num(1, "")
    /\ SourceRow(merge_df.rows[2])["Avløp"] = Num(6, ".6")
    /\ merge_df.rows[2].cells["Avløp"] = Num(7, "")
    /\ SourceRow(merge_df.rows[3])["Avløp"] = Num(0, ".5")
    /\ merge_df.rows[3].cells["Avløp"] = Num(0, "")

\* C10 as stated: in both notebooks at most one file is open at any time.
C10_OneHandle == Cardinality(handles) <= 1

\* C10 amended: the merge notebook has at most one file open at any time and
\* none once it has ended; the export notebook keeps the workbook open from
\* the start of the with block to its end, has at most one CSV open besides
\* it, and has no file open after a run without error.
C10_Handles ==
    /\ nb = "merge" =>
         /\ Cardinality(handles) <= 1
         /\ pc \in {"done", "error"} => handles = {}
    /\ nb = "excel" =>
         /\ Cardinality(handles \ {xl_path}) <= 1
         /\ pc \in {"open_csv", "parse_csv", "to_excel", "exit_writer"} => xl_path \in handles
         /\ pc = "parse_csv" => csv_path \in handles
         /\ pc # "parse_csv" => handles \subseteq {xl_path}
         /\ pc = "done" => handles = {}

\* the export notebook reads a CSV while the workbook is open
C10_Witness == nb = "excel" /\ pc = "parse_csv" /\ handles = {xl_path, csv_path}

====
